---- MODULE Spec2Model ----
(***************************************************************************)
(* mbed-util/atomic_ops.h: atomic_cas (exclusive-monitor realization for   *)
(* ARMv7-M, interrupt-masking realization for Cortex-M0), atomic_incr and  *)
(* atomic_decr, executed by mainline code and by nested interrupt handlers *)
(* on one core.  One step of the model is one statement of the source; an  *)
(* interrupt may be taken between any two steps while PRIMASK is 0.        *)
(***************************************************************************)
EXTENDS Integers, Sequences, FiniteSets, TLC

\* ---------------------------------------------------------------- bounds
MaxDepth == 1      \* nesting depth of interrupt handlers above the mainline
MaxCalls == 2      \* calls of atomic_cas / atomic_incr / atomic_decr started
MaxIrqs  == 1      \* interrupts taken

\* ------------------------------------------------------- program constants
Modulus == 256     \* number of values of uint8_t, the type of the cell

Agents == 0 .. MaxDepth          \* 0 is the mainline, a > 0 a handler
Vals   == {0, 1}                 \* arguments of atomic_cas, initial content of
                                 \* the cell: atomic_cas only copies and compares
Deltas == {1, 2}                 \* deltas of atomic_incr / atomic_decr
None   == 0 - 1                  \* "no value" in the bookkeeping fields

VARIABLES
    mech,      \* build: "LDREX" (__CORTEX_M >= 3) or "PRIMASK" (__CORTEX_M == 0)
    cell,      \* *ptr, the target memory location
    PRIMASK,   \* the core's PRIMASK register: 1 masks interrupts
    monitor,   \* the core's local exclusive monitor: TRUE = reservation held
    depth,     \* the running agent; agents below it are preempted
    delta,     \* delta[a]: the delta agent a passes to atomic_incr/atomic_decr
               \* in all its calls (None before its first call)
    f,         \* f[a]: agent a's position and local variables
    g,         \* g[a]: bookkeeping about agent a's current atomic_cas call
    lastStored, \* the value stored by the latest successful atomic_cas, or
               \* the initial content of the cell before the first one
    stat       \* counters of the calls started and completed

vars == <<mech, cell, PRIMASK, monitor, depth, delta, f, g, lastStored, stat>>

\* ------------------------------------------------------------------ frames
IdleFrame ==
    [pc |-> "idle", op |-> "none",
     expectedCurrentValue |-> 0,   \* *expectedCurrentValue (oldValue in incr/decr)
     desiredValue |-> 0,           \* desiredValue (newValue in incr/decr)
     currentValue |-> 0,
     previousPRIMASK |-> 0,
     rc |-> TRUE,
     ret |-> "none",               \* the value atomic_cas returned
     result |-> None]              \* the value atomic_incr/atomic_decr returned

IdleNote ==
    [entryCell |-> None,      \* cell when atomic_cas was called
     entryExp |-> None,       \* *expectedCurrentValue when it was called
     entryPM |-> None,        \* PRIMASK when it was called
     disturbed |-> FALSE,     \* an interrupt was taken since the call
     dirty |-> FALSE,         \* another agent stored to the cell since this call's read
     loadCell |-> None,       \* cell at this call's read
     foreign |-> 0,           \* stores of other agents since the call (2: two or more)
     stores |-> 0,            \* stores to the cell made by this call
     preStore |-> None,       \* cell immediately before this call's store
     prevStored |-> None,     \* what the successful call before this one stored
     storeDirty |-> FALSE,    \* dirty, as it was at this call's store
     decCell |-> None,        \* cell at the step that decided the return value
     postCell |-> None,       \* cell right after that step
     rivals |-> 0,            \* overlapping calls with the same pre-image
     rivalRet |-> "none",     \* what the (last) rival returned
     rivalDesired |-> None,   \* what the (last) rival wanted to store
     attempts |-> 0,          \* atomic_cas calls made by the current incr/decr
     stale |-> FALSE,         \* another agent stored since oldValue was last read
     opForeign |-> FALSE]     \* another agent stored during the current incr/decr

InitStat ==
    [calls |-> 0, irqs |-> 0, cell0 |-> 0, casStores |-> FALSE,
     nIncr |-> [a \in Agents |-> 0], nDecr |-> [a \in Agents |-> 0],
     results |-> {},     \* the values the atomic_incr calls returned
     dup |-> FALSE]      \* an atomic_incr returned a value another had returned

Running(a) == a = depth

\* Positions of a preempted call at which its return value is not yet produced.
InCas == {"ldrex", "cmp", "clrex", "strex", "getpm", "disable", "load",
          "cmpstore", "restore"}

\* The first statement of atomic_cas in the build in use.
CasEntry == IF mech = "LDREX" THEN "ldrex" ELSE "getpm"

\* Bookkeeping at a call of atomic_cas by agent a with *expectedCurrentValue = e.
EnterNote(a, e) ==
    [IdleNote EXCEPT !.entryCell = cell, !.entryExp = e, !.entryPM = PRIMASK,
                     !.attempts = g[a].attempts + 1,
                     !.stale = g[a].stale, !.opForeign = g[a].opForeign]

\* Agent b is inside an atomic_incr / atomic_decr call that has not returned.
InIncrDecr(b) == f[b].op \in {"incr", "decr"} /\ f[b].pc \notin {"idle", "done"}

\* Bookkeeping at a store of agent a: every other agent's read is now stale.
Dirtied(gg, a) ==
    [b \in Agents |->
        IF b # a /\ f[b].pc \in InCas
        THEN [gg[b] EXCEPT !.dirty = TRUE,
                           !.foreign = IF @ = 0 THEN 1 ELSE 2,
                           !.stale = @ \/ InIncrDecr(b),
                           !.opForeign = @ \/ InIncrDecr(b)]
        ELSE IF b # a /\ InIncrDecr(b)
        THEN [gg[b] EXCEPT !.stale = TRUE, !.opForeign = TRUE]
        ELSE gg[b]]

\* Bookkeeping at a write-back into agent a's oldValue: the value written
\* back is the one the call read, so oldValue is as old as that read.
Observed(gg, a) ==
    IF InIncrDecr(a) THEN [gg EXCEPT ![a].stale = gg[a].dirty] ELSE gg

\* Bookkeeping when agent a's atomic_cas returns r: if the call it preempted is
\* an atomic_cas on the same pre-image, a is a rival of that call.
Rivalled(gg, a, r) ==
    IF /\ a > 0
       /\ f[a - 1].pc \in InCas
       /\ gg[a - 1].entryExp = gg[a - 1].entryCell
       /\ gg[a].entryExp = gg[a - 1].entryExp
       /\ gg[a].entryCell = gg[a - 1].entryCell
    THEN [gg EXCEPT ![a - 1].rivals = IF gg[a].disturbed THEN 2 ELSE @ + 1,
                    ![a - 1].rivalRet = r,
                    ![a - 1].rivalDesired = f[a].desiredValue]
    ELSE gg

\* Bookkeeping at a successful store of agent a, before the cell changes.
AtStore(gg, a) ==
    Dirtied([gg EXCEPT ![a].stores = @ + 1,
                       ![a].preStore = cell, ![a].prevStored = lastStored,
                       ![a].storeDirty = gg[a].dirty, ![a].decCell = cell,
                       ![a].postCell = f[a].desiredValue], a)

\* Bookkeeping at the step at which agent a's call fails with the cell at c.
AtFail(gg, a, c) == [gg EXCEPT ![a].decCell = c, ![a].postCell = cell]

\* ------------------------------------------------------------------- Init
Init ==
    /\ mech \in {"LDREX", "PRIMASK"}
    /\ cell \in Vals
    /\ PRIMASK \in {0, 1}
    /\ monitor = FALSE
    /\ depth = 0
    /\ delta = [a \in Agents |-> None]
    /\ f = [a \in Agents |-> IdleFrame]
    /\ g = [a \in Agents |-> IdleNote]
    /\ lastStored = cell
    /\ stat = [InitStat EXCEPT !.cell0 = cell]

\* ------------------------------------------------------------ environment
\* An interrupt is taken: the running agent is preempted by a handler.
\* Exception entry leaves the local monitor in the Open Access state.
IrqEntry ==
    /\ PRIMASK = 0
    /\ depth < MaxDepth
    /\ stat.irqs < MaxIrqs
    /\ stat.calls < MaxCalls \/ f[depth].pc \in InCas
    /\ depth' = depth + 1
    /\ monitor' = FALSE
    /\ g' = [g EXCEPT ![depth].disturbed = (f[depth].pc # "idle")]
    /\ stat' = [stat EXCEPT !.irqs = @ + 1]
    /\ UNCHANGED <<mech, cell, PRIMASK, delta, f, lastStored>>

\* The handler returns; exception return clears the local monitor too.
IrqReturn ==
    /\ depth > 0
    /\ f[depth].pc = "idle"
    /\ depth' = depth - 1
    /\ monitor' = FALSE
    /\ UNCHANGED <<mech, cell, PRIMASK, delta, f, g, lastStored, stat>>

\* ------------------------------------------------------------ the callers
\* A caller invokes atomic_cas(ptr, &e, d).
CallCas(a, e, d) ==
    /\ Running(a)
    /\ f[a].pc = "idle"
    /\ stat.calls < MaxCalls
    /\ f' = [f EXCEPT ![a] = [IdleFrame EXCEPT !.pc = CasEntry, !.op = "cas",
                                                !.expectedCurrentValue = e,
                                                !.desiredValue = d]]
    /\ g' = [g EXCEPT ![a] = EnterNote(a, e)]
    /\ stat' = [stat EXCEPT !.calls = @ + 1]
    /\ UNCHANGED <<mech, cell, PRIMASK, monitor, depth, delta, lastStored>>

\* A caller invokes atomic_incr(ptr, delta[a]) or atomic_decr(ptr, delta[a]).
CallIncrDecr(a, o, d) ==
    /\ Running(a)
    /\ f[a].pc = "idle"
    /\ stat.calls < MaxCalls
    /\ delta[a] \in {None, d}
    /\ delta' = [delta EXCEPT ![a] = d]
    /\ f' = [f EXCEPT ![a] = [IdleFrame EXCEPT !.pc = "read", !.op = o]]
    /\ g' = [g EXCEPT ![a] = IdleNote]
    /\ stat' = [stat EXCEPT !.calls = @ + 1]
    /\ UNCHANGED <<mech, cell, PRIMASK, monitor, depth, lastStored>>

\* The caller has used the results of its call.
Finish(a) ==
    /\ Running(a)
    /\ \/ f[a].pc = "done"
       \/ f[a].pc = "returned" /\ f[a].op = "cas"
    /\ f' = [f EXCEPT ![a] = IdleFrame]
    /\ g' = [g EXCEPT ![a] = IdleNote]
    /\ UNCHANGED <<mech, cell, PRIMASK, monitor, depth, delta, lastStored, stat>>

\* ------------------------------------- atomic_cas, exclusive-monitor build
\* A byte load that sign-extends, as into a signed T.
Load_SignExtended(c) == IF c >= Modulus \div 2 THEN c - Modulus ELSE c

\* A read of the cell into a variable of type T: the value of its 8 bits.
Load(c) == c % Modulus

\* currentValue = __LDREXB(ptr);
Ldrex(a) ==
    /\ Running(a)
    /\ f[a].pc = "ldrex"
    /\ f' = [f EXCEPT ![a].currentValue = Load(cell), ![a].pc = "cmp"]
    /\ monitor' = TRUE
    /\ g' = [g EXCEPT ![a].dirty = FALSE, ![a].loadCell = cell]
    /\ UNCHANGED <<mech, cell, PRIMASK, depth, delta, lastStored, stat>>

\* The write-back left out: *expectedCurrentValue keeps its value.
WriteBack_Missing(currentValue, expected) == expected

\* *expectedCurrentValue = currentValue;
WriteBack(currentValue, expected) == currentValue

\* if (currentValue != *expectedCurrentValue) { *expectedCurrentValue = currentValue;
Cmp(a) ==
    /\ Running(a)
    /\ f[a].pc = "cmp"
    /\ IF f[a].currentValue # f[a].expectedCurrentValue
       THEN /\ f' = [f EXCEPT ![a].expectedCurrentValue =
                                  WriteBack(f[a].currentValue, @),
                              ![a].pc = "clrex"]
            /\ g' = Observed(AtFail(g, a, f[a].currentValue), a)
       ELSE /\ f' = [f EXCEPT ![a].pc = "strex"]
            /\ UNCHANGED g
    /\ UNCHANGED <<mech, cell, PRIMASK, monitor, depth, delta, lastStored, stat>>

\* The __CLREX() left out: the reservation of the load-exclusive stays.
ClearExclusive_Missing(reserved) == reserved

\* __CLREX();
ClearExclusive(reserved) == FALSE

\* __CLREX(); return false; }
Clrex(a) ==
    /\ Running(a)
    /\ f[a].pc = "clrex"
    /\ monitor' = ClearExclusive(monitor)
    /\ f' = [f EXCEPT ![a].ret = FALSE, ![a].pc = "returned"]
    /\ g' = Rivalled(g, a, FALSE)
    /\ UNCHANGED <<mech, cell, PRIMASK, depth, delta, lastStored, stat>>

\* A plain store in place of the store-exclusive: it stores whatever the monitor.
StoreConditional_Plain(reserved) == TRUE

\* __STREXB(desiredValue, ptr) stores only if the reservation is still held.
StoreConditional(reserved) == reserved

\* The status of the store-exclusive returned as it is.
ReturnOfStrex_NotNegated(status) == status # 0

\* return !__STREXB(desiredValue, ptr);   (status 0: stored, 1: not stored)
ReturnOfStrex(status) == status = 0

Strex(a) ==
    LET stored == StoreConditional(monitor)
        r == ReturnOfStrex(IF stored THEN 0 ELSE 1)
    IN  /\ Running(a)
        /\ f[a].pc = "strex"
        /\ monitor' = FALSE
        /\ cell' = IF stored THEN f[a].desiredValue ELSE cell
        /\ lastStored' = IF stored THEN f[a].desiredValue ELSE lastStored
        /\ f' = [f EXCEPT ![a].ret = r, ![a].pc = "returned"]
        /\ g' = Rivalled(IF stored THEN AtStore(g, a) ELSE AtFail(g, a, cell), a, r)
        /\ stat' = [stat EXCEPT !.casStores = @ \/ (stored /\ f[a].op = "cas")]
        /\ UNCHANGED <<mech, PRIMASK, depth, delta>>

\* ------------------------------------- atomic_cas, interrupt-masking build
\* bool rc = true; uint32_t previousPRIMASK = __get_PRIMASK();
GetPrimask(a) ==
    /\ Running(a)
    /\ f[a].pc = "getpm"
    /\ f' = [f EXCEPT ![a].rc = TRUE, ![a].previousPRIMASK = PRIMASK,
                      ![a].pc = "disable"]
    /\ UNCHANGED <<mech, cell, PRIMASK, monitor, depth, delta, g, lastStored, stat>>

\* The disable left out.
DisableIrq_Missing(a) ==
    /\ Running(a)
    /\ f[a].pc = "disable"
    /\ f' = [f EXCEPT ![a].pc = "load"]
    /\ UNCHANGED <<mech, cell, PRIMASK, monitor, depth, delta, g, lastStored, stat>>

\* __disable_irq();
DisableIrq(a) ==
    /\ Running(a)
    /\ f[a].pc = "disable"
    /\ PRIMASK' = 1
    /\ f' = [f EXCEPT ![a].pc = "load"]
    /\ UNCHANGED <<mech, cell, monitor, depth, delta, g, lastStored, stat>>

\* T currentValue = *ptr;
ReadPtr(a) ==
    /\ Running(a)
    /\ f[a].pc = "load"
    /\ f' = [f EXCEPT ![a].currentValue = Load(cell), ![a].pc = "cmpstore"]
    /\ g' = [g EXCEPT ![a].dirty = FALSE, ![a].loadCell = cell]
    /\ UNCHANGED <<mech, cell, PRIMASK, monitor, depth, delta, lastStored, stat>>

\* if (currentValue == *expectedCurrentValue) { *ptr = desiredValue; }
\* else { *expectedCurrentValue = currentValue; rc = false; }
CompareStore(a) ==
    /\ Running(a)
    /\ f[a].pc = "cmpstore"
    /\ IF f[a].currentValue = f[a].expectedCurrentValue
       THEN /\ cell' = f[a].desiredValue
            /\ lastStored' = f[a].desiredValue
            /\ f' = [f EXCEPT ![a].pc = "restore"]
            /\ g' = AtStore(g, a)
            /\ stat' = [stat EXCEPT !.casStores = @ \/ f[a].op = "cas"]
       ELSE /\ f' = [f EXCEPT ![a].expectedCurrentValue =
                                  WriteBack(f[a].currentValue, @),
                              ![a].rc = FALSE, ![a].pc = "restore"]
            /\ g' = Observed(AtFail(g, a, cell), a)
            /\ UNCHANGED <<cell, lastStored, stat>>
    /\ UNCHANGED <<mech, PRIMASK, monitor, depth, delta>>

\* Interrupts enabled on exit whatever they were on entry.
ShouldEnable_Always(previousPRIMASK) == TRUE

\* if (!previousPRIMASK)
ShouldEnable(previousPRIMASK) == previousPRIMASK = 0

\* if (!previousPRIMASK) { __enable_irq(); }  return rc;
RestoreIrq(a) ==
    /\ Running(a)
    /\ f[a].pc = "restore"
    /\ PRIMASK' = IF ShouldEnable(f[a].previousPRIMASK) THEN 0 ELSE PRIMASK
    /\ f' = [f EXCEPT ![a].ret = f[a].rc, ![a].pc = "returned"]
    /\ g' = Rivalled(g, a, f[a].rc)
    /\ UNCHANGED <<mech, cell, monitor, depth, delta, lastStored, stat>>

\* ------------------------------------------------ atomic_incr, atomic_decr
\* atomic_decr copied from atomic_incr with the + left in.
NewValue_CopyPaste(o, oldValue, d) == (oldValue + d) % Modulus

\* newValue = oldValue + delta (atomic_incr), oldValue - delta (atomic_decr), in T
NewValue(o, oldValue, d) ==
    IF o = "incr" THEN (oldValue + d) % Modulus
                  ELSE (oldValue - d + Modulus) % Modulus

\* T oldValue = *valuePtr;
IncrRead(a) ==
    /\ Running(a)
    /\ f[a].pc = "read"
    /\ f' = [f EXCEPT ![a].expectedCurrentValue = Load(cell), ![a].pc = "loop"]
    /\ g' = [g EXCEPT ![a].stale = FALSE]
    /\ UNCHANGED <<mech, cell, PRIMASK, monitor, depth, delta, lastStored, stat>>

\* const T newValue = oldValue + delta;  atomic_cas(valuePtr, &oldValue, newValue)
IncrLoop(a) ==
    /\ Running(a)
    /\ f[a].pc = "loop"
    /\ f' = [f EXCEPT ![a].desiredValue =
                          NewValue(f[a].op, f[a].expectedCurrentValue, delta[a]),
                      ![a].ret = "none",
                      ![a].pc = CasEntry]
    /\ g' = [g EXCEPT ![a] = EnterNote(a, f[a].expectedCurrentValue)]
    /\ UNCHANGED <<mech, cell, PRIMASK, monitor, depth, delta, lastStored, stat>>

\* The loop left after the first atomic_cas, whatever it returned.
LoopExit_Always(ret) == TRUE

\* if (atomic_cas(valuePtr, &oldValue, newValue))
LoopExit(ret) == ret = TRUE

\* if (atomic_cas(...)) { return newValue; }  -- else: while (true)
IncrCheck(a) ==
    /\ Running(a)
    /\ f[a].pc = "returned"
    /\ f[a].op \in {"incr", "decr"}
    /\ IF LoopExit(f[a].ret)
       THEN /\ f' = [f EXCEPT ![a].result = f[a].desiredValue, ![a].pc = "done"]
            /\ stat' = IF f[a].op = "incr"
                       THEN [stat EXCEPT
                                !.nIncr[a] = @ + 1,
                                !.results = @ \cup {f[a].desiredValue},
                                !.dup = @ \/ f[a].desiredValue \in stat.results]
                       ELSE [stat EXCEPT !.nDecr[a] = @ + 1]
       ELSE /\ f' = [f EXCEPT ![a].pc = "loop"]
            /\ UNCHANGED stat
    /\ UNCHANGED <<mech, cell, PRIMASK, monitor, depth, delta, g, lastStored>>

\* ------------------------------------------------------------------- Next
Next ==
    \/ IrqEntry
    \/ IrqReturn
    \/ \E a \in Agents, e \in Vals, d \in Vals : CallCas(a, e, d)
    \/ \E a \in Agents, o \in {"incr", "decr"}, d \in Deltas : CallIncrDecr(a, o, d)
    \/ \E a \in Agents : Finish(a)
    \/ \E a \in Agents : Ldrex(a)
    \/ \E a \in Agents : Cmp(a)
    \/ \E a \in Agents : Clrex(a)
    \/ \E a \in Agents : Strex(a)
    \/ \E a \in Agents : GetPrimask(a)
    \/ \E a \in Agents : DisableIrq(a)
    \/ \E a \in Agents : ReadPtr(a)
    \/ \E a \in Agents : CompareStore(a)
    \/ \E a \in Agents : RestoreIrq(a)
    \/ \E a \in Agents : IncrRead(a)
    \/ \E a \in Agents : IncrLoop(a)
    \/ \E a \in Agents : IncrCheck(a)

Spec == Init /\ [][Next]_vars

\* The core keeps executing instructions: whenever some step is possible, one
\* is eventually taken.  Interrupts are taken finitely often (MaxIrqs).
FairSpec == Spec /\ WF_vars(Next)

\* ---------------------------------------------------------------- helpers
Returned(a) == f[a].pc = "returned"

\* No call is in progress in any agent.
Quiescent == \A a \in Agents : f[a].pc \in {"idle", "done"}

\* Only atomic_incr calls have written the cell, which started at 0.
OnlyIncrements ==
    /\ stat.cell0 = 0
    /\ ~stat.casStores
    /\ \A a \in Agents : stat.nDecr[a] = 0

RECURSIVE SumOfStreams(_)
\* The sum of count * delta over the agents 0 .. n.
SumOfStreams(n) ==
    (IF stat.nIncr[n] = 0 THEN 0 ELSE stat.nIncr[n] * delta[n])
    + (IF n = 0 THEN 0 ELSE SumOfStreams(n - 1))

\* function cas(p, old, new): the pseudocode of the doc comment, as one step.
PseudoCas(p, old, new) ==
    IF p # old THEN [ret |-> FALSE, old |-> p, p |-> p]
               ELSE [ret |-> TRUE, old |-> old, p |-> new]

\* ------------------------------------------------------------------ claims
\* C1: whenever atomic_cas returns true, the cell held the caller's
\* *expectedCurrentValue immediately before the call's store, and no other
\* agent stored to the cell between the call's read and its store.
CasAtomic ==
    \A a \in Agents :
        (f[a].pc \in {"returned", "done"} /\ f[a].ret = TRUE)
            => /\ g[a].preStore = g[a].entryExp
               /\ g[a].entryExp = f[a].expectedCurrentValue
               /\ ~g[a].storeDirty

\* C1 witness: a call that was preempted, found the cell changed by the
\* handler since the call was made, and succeeded.
CasAtomicWitness ==
    \E a \in Agents :
        /\ Returned(a) /\ f[a].ret = TRUE
        /\ g[a].disturbed
        /\ g[a].entryCell # g[a].entryExp

\* C2: a call made with *expectedCurrentValue equal to the cell, during which
\* no other agent runs, returns true, leaves desiredValue in the cell and
\* leaves *expectedCurrentValue as it was.
CasSerialSuccess ==
    \A a \in Agents :
        (Returned(a) /\ ~g[a].disturbed /\ g[a].entryExp = g[a].entryCell)
            => /\ f[a].ret = TRUE
               /\ cell = f[a].desiredValue
               /\ f[a].expectedCurrentValue = g[a].entryExp

\* C2 witness: such a call has returned, storing a new value (LDREX build).
CasSerialSuccessWitness ==
    \E a \in Agents :
        /\ mech = "LDREX"
        /\ Returned(a) /\ ~g[a].disturbed /\ g[a].entryExp = g[a].entryCell
        /\ f[a].desiredValue # g[a].entryCell

\* C3: a call made with *expectedCurrentValue different from the cell, during
\* which no other agent runs, returns false, leaves the cell as it was and
\* overwrites *expectedCurrentValue with the cell's content.
CasSerialMismatch ==
    \A a \in Agents :
        (Returned(a) /\ ~g[a].disturbed /\ g[a].entryExp # g[a].entryCell)
            => /\ f[a].ret = FALSE
               /\ cell = g[a].entryCell
               /\ f[a].expectedCurrentValue = g[a].entryCell

\* C3 witness: such a call has returned (PRIMASK build).
CasSerialMismatchWitness ==
    \E a \in Agents :
        /\ mech = "PRIMASK"
        /\ Returned(a) /\ ~g[a].disturbed /\ g[a].entryExp # g[a].entryCell
        /\ f[a].desiredValue # g[a].entryCell

\* Agent a's call has returned, and exactly one other call overlapped it: one
\* made with the same expected value, equal to the cell's content, while a's
\* call was preempted; no third call stored to the cell meanwhile.
TwoOverlapped(a) == Returned(a) /\ g[a].rivals = 1 /\ g[a].foreign <= 1

\* C4 as claimed: of two overlapping calls made with the same expected value,
\* equal to the cell's content, exactly one returns true, whatever the
\* desired values.
CasExactlyOneOfTwo ==
    \A a \in Agents : TwoOverlapped(a) => (f[a].ret # g[a].rivalRet)

\* C4 as amended: of two such calls exactly one returns true, provided the
\* one that stores first stores a value different from the pre-image.
CasExactlyOneOfTwoDistinct ==
    \A a \in Agents :
        (TwoOverlapped(a) /\ g[a].rivalDesired # g[a].entryCell)
            => (f[a].ret # g[a].rivalRet)

\* C4 witness: a call preempted after its read matched, by a call on the same
\* pre-image that stored another value, has returned.
CasExactlyOneOfTwoWitness ==
    \E a \in Agents :
        /\ TwoOverlapped(a)
        /\ g[a].rivalDesired # g[a].entryCell
        /\ f[a].currentValue = g[a].entryExp
        /\ g[a].rivalRet = TRUE /\ f[a].ret = FALSE

\* C5 as claimed: whenever atomic_cas returns false, *expectedCurrentValue
\* holds the content the cell had when the call failed; a call that lost to
\* another call's store holds the value that call stored.
CasFailureRefreshesExpected ==
    \A a \in Agents :
        (Returned(a) /\ f[a].ret = FALSE)
            => f[a].expectedCurrentValue = g[a].decCell

\* C6: when the cell starts at 0 and is written by atomic_incr calls only,
\* agent a making nIncr[a] calls with delta[a], the cell holds the sum of
\* nIncr[a] * delta[a] over the agents whenever no call is in progress.
NoLostUpdates ==
    (Quiescent /\ OnlyIncrements) => cell = SumOfStreams(MaxDepth) % Modulus

\* C6 witness: the mainline and a handler have both incremented, by
\* different deltas, and the mainline had to retry its atomic_cas.
NoLostUpdatesWitness ==
    /\ Quiescent /\ OnlyIncrements
    /\ f[0].pc = "done" /\ g[0].attempts >= 2
    /\ stat.nIncr[0] >= 1 /\ stat.nIncr[1] >= 1
    /\ delta[0] # delta[1]

\* C7: when only the mainline writes the cell, by N calls of atomic_incr with
\* delta d starting from 0, the cell holds N * d, however many atomic_cas
\* attempts failed.
IncrSequential ==
    (/\ Quiescent /\ OnlyIncrements
     /\ \A a \in Agents : a > 0 => stat.nIncr[a] = 0)
        => cell = (IF stat.nIncr[0] = 0 THEN 0 ELSE stat.nIncr[0] * delta[0]) % Modulus

\* C7 witness: the mainline's second atomic_incr returns after a failed
\* atomic_cas attempt, nobody else having written the cell.
IncrSequentialWitness ==
    /\ Quiescent /\ OnlyIncrements
    /\ \A a \in Agents : a > 0 => stat.nIncr[a] = 0
    /\ f[0].pc = "done" /\ g[0].attempts >= 2
    /\ stat.nIncr[0] = 2

\* C8: when the interrupt-masking atomic_cas has returned to the running
\* agent, PRIMASK is what it was when the call was made.
InterruptStatePreserved ==
    \A a \in Agents :
        (mech = "PRIMASK" /\ Running(a) /\ Returned(a)) => PRIMASK = g[a].entryPM

\* C8 witness: a call preempted between the PRIMASK query and the disable by
\* a handler that changed the cell has returned false, interrupts enabled.
InterruptStatePreservedWitness ==
    \E a \in Agents :
        /\ mech = "PRIMASK" /\ Running(a) /\ Returned(a)
        /\ g[a].disturbed /\ f[a].ret = FALSE
        /\ g[a].entryExp = g[a].entryCell
        /\ PRIMASK = 0

\* C9: every successful atomic_cas observed, as its expected value, the value
\* stored by the successful atomic_cas immediately before it (the initial
\* content of the cell for the first).
TotalOrderOfUpdates ==
    \A a \in Agents :
        (f[a].pc \in {"returned", "done"} /\ f[a].ret = TRUE)
            => g[a].prevStored = g[a].entryExp

\* C9 witness: a successful call whose predecessor in the order is another
\* agent's call, which stored a value different from the initial content.
TotalOrderOfUpdatesWitness ==
    \E a \in Agents :
        /\ Returned(a) /\ f[a].ret = TRUE
        /\ g[a].disturbed
        /\ g[a].prevStored # stat.cell0
        /\ f[a].desiredValue # g[a].prevStored

\* C10 as claimed: in both builds every call of atomic_cas returns what the
\* pseudocode cas(p, old, new) returns, run as one step on the cell's content
\* at the step that decided the call, and leaves the same *expectedCurrentValue
\* and the same cell content.
CasMatchesPseudocode ==
    \A a \in Agents :
        Returned(a) =>
            LET r == PseudoCas(g[a].decCell, g[a].entryExp, f[a].desiredValue)
            IN  /\ f[a].ret = r.ret
                /\ f[a].expectedCurrentValue = r.old
                /\ g[a].postCell = r.p

\* C11: the value atomic_incr / atomic_decr returns is the value its
\* successful atomic_cas stored, and is the content the cell had immediately
\* before that store plus delta (atomic_incr), minus delta (atomic_decr).
IncrReturnsStored ==
    \A a \in Agents :
        f[a].pc = "done" =>
            /\ g[a].stores = 1
            /\ f[a].result = g[a].postCell
            /\ f[a].op = "incr" =>
                   f[a].result = (g[a].preStore + delta[a]) % Modulus
            /\ f[a].op = "decr" =>
                   f[a].result = (g[a].preStore + Modulus - delta[a]) % Modulus

\* C11 witness: an atomic_decr that wrapped around 0 has returned after a
\* retry, another agent having changed the cell since the call's first read.
IncrReturnsStoredWitness ==
    \E a \in Agents :
        /\ f[a].pc = "done" /\ f[a].op = "decr"
        /\ g[a].attempts >= 2
        /\ g[a].preStore < delta[a]
        /\ g[a].preStore # stat.cell0

\* C12: an atomic_cas call that returned false made no store to the cell; one
\* that returned true made exactly one, of desiredValue, and left
\* *expectedCurrentValue as it was; the exclusive-monitor call returns true
\* exactly when its store-exclusive stored.
CasFrame ==
    \A a \in Agents :
        Returned(a) =>
            /\ f[a].ret = FALSE => g[a].stores = 0
            /\ f[a].ret = TRUE =>
                   /\ g[a].stores = 1
                   /\ g[a].postCell = f[a].desiredValue
                   /\ f[a].expectedCurrentValue = g[a].entryExp
            /\ f[a].ret \in BOOLEAN

\* C12 witness: an exclusive-monitor call whose load matched and whose
\* store-exclusive failed has returned false, the cell holding another value
\* than the one the call wanted to store.
CasFrameWitness ==
    \E a \in Agents :
        /\ mech = "LDREX" /\ Returned(a) /\ f[a].ret = FALSE
        /\ f[a].currentValue = g[a].entryExp
        /\ g[a].stores = 0
        /\ cell # f[a].desiredValue

\* C13: in the interrupt-masking atomic_cas, from the read of *ptr to the
\* restore of PRIMASK the interrupts are masked and the caller is the
\* running agent: no handler has run since the call's read.
MaskedWindow ==
    \A a \in Agents :
        (mech = "PRIMASK" /\ f[a].pc \in {"load", "cmpstore", "restore"})
            => /\ PRIMASK = 1
               /\ Running(a)
               /\ f[a].pc # "load" => ~g[a].dirty

\* C13 witness: a handler's call, made with interrupts enabled, has stored
\* and not yet restored PRIMASK, while the mainline's call is preempted
\* between its PRIMASK query and its disable.
MaskedWindowWitness ==
    \E a \in Agents :
        /\ mech = "PRIMASK" /\ a > 0 /\ f[a].pc = "restore"
        /\ f[a].previousPRIMASK = 0
        /\ g[a].stores = 1
        /\ f[a - 1].pc = "disable"

\* (initial content + increments - decrements) of the agents 0 .. n, in T.
RECURSIVE NetOfStreams(_)
NetOfStreams(n) ==
    (IF delta[n] = None THEN 0
     ELSE (stat.nIncr[n] * delta[n]
           + stat.nDecr[n] * (Modulus - delta[n])) % Modulus)
    + (IF n = 0 THEN stat.cell0 ELSE NetOfStreams(n - 1))

\* atomic_incr(d) and atomic_decr(d) by the mainline, as many of one as of
\* the other and nobody else writing, leave the initial content in the cell.
IncrDecrRoundTrip ==
    (/\ stat.nIncr[0] = stat.nDecr[0]
     /\ \A a \in Agents : a > 0 => stat.nIncr[a] = 0 /\ stat.nDecr[a] = 0)
        => cell = stat.cell0

\* C14: when the cell is written by atomic_incr and atomic_decr calls only,
\* it holds, whenever no call is in progress, its initial content plus the
\* deltas of the atomic_incr calls minus those of the atomic_decr calls,
\* modulo 2^8; an atomic_incr(d) undone by an atomic_decr(d) restores it.
NoLostMixedUpdates ==
    (Quiescent /\ ~stat.casStores) =>
        /\ cell = NetOfStreams(MaxDepth) % Modulus
        /\ IncrDecrRoundTrip

\* C14 witness: from 0 a handler incremented and the mainline, after a
\* retry, decremented by more: the cell wrapped around to 255.
NoLostMixedUpdatesWitness ==
    /\ Quiescent /\ ~stat.casStores
    /\ stat.cell0 = 0
    /\ stat.nIncr[1] = 1 /\ stat.nDecr[0] = 1
    /\ f[0].pc = "done" /\ g[0].attempts >= 2
    /\ cell = Modulus - 1

\* C15: inside atomic_incr / atomic_decr an atomic_cas attempt fails only if
\* another agent stored to the cell after oldValue was last read, and a call
\* during which no other agent stores to the cell returns after exactly one
\* attempt.
RetryOnlyAfterForeignWrite ==
    \A a \in Agents :
        /\ (InIncrDecr(a) /\ f[a].pc \in {"cmp", "cmpstore"}
              /\ f[a].currentValue # f[a].expectedCurrentValue) => g[a].stale
        /\ (InIncrDecr(a) /\ Returned(a) /\ f[a].ret = FALSE
              /\ f[a].currentValue = g[a].entryExp) => g[a].stale
        /\ (f[a].pc = "done" /\ ~g[a].opForeign) => g[a].attempts = 1

\* The part of C15 about termination, under FairSpec: every atomic_incr /
\* atomic_decr call that was started returns.
IncrDecrEventuallyReturns ==
    \A a \in Agents : InIncrDecr(a) ~> (f[a].pc = "done")

\* C16: the exclusive-monitor atomic_cas leaves no reservation behind: in
\* every state in which the running agent's call has returned, true or false,
\* the monitor holds no reservation, and a reservation is only ever held by a
\* running call between its load-exclusive and its store-exclusive or clear.
NoLeftoverReservation ==
    /\ \A a \in Agents :
           (Running(a) /\ f[a].pc \in {"returned", "loop", "done", "idle"})
               => ~monitor
    /\ monitor => f[depth].pc \in {"cmp", "clrex", "strex"}

\* C16 witness: a handler's call has returned false through the mismatch
\* path, having taken its reservation while the mainline, preempted before
\* its store-exclusive, had lost its own.
NoLeftoverReservationWitness ==
    \E a \in Agents :
        /\ mech = "LDREX" /\ a > 0 /\ Running(a)
        /\ Returned(a) /\ f[a].ret = FALSE
        /\ f[a].currentValue # g[a].entryExp
        /\ f[a - 1].pc = "strex"
        /\ ~monitor

\* C17: the cell holds its initial value or the desiredValue of an atomic_cas
\* that stored it, every call that stored returns true, and a value written
\* back into *expectedCurrentValue is the value the cell held when the call
\* read it.
NoThinAirValues ==
    /\ cell = lastStored
    /\ \A a \in Agents :
          /\ (Returned(a) /\ g[a].stores > 0) =>
                 (f[a].ret = TRUE /\ g[a].postCell = f[a].desiredValue)
          /\ (f[a].pc \in InCas \cup {"returned"}
                /\ f[a].expectedCurrentValue # g[a].entryExp) =>
                 f[a].expectedCurrentValue = g[a].loadCell

\* C17 witness: a call has returned false with 255 written back into its
\* *expectedCurrentValue, the value an atomic_decr had stored into a cell
\* that started at 0 or 1.
NoThinAirValuesWitness ==
    \E a \in Agents :
        /\ Returned(a) /\ f[a].op = "cas" /\ f[a].ret = FALSE
        /\ f[a].expectedCurrentValue # g[a].entryExp
        /\ f[a].expectedCurrentValue = Modulus - 1
        /\ cell = Modulus - 1

RoundTripWriteBackReached ==
    \E a \in Agents :
        /\ lastStored = Modulus - 1 /\ stat.cell0 # Modulus - 1
        /\ f[a].pc \in {"clrex", "restore"} /\ ~g[a].dirty
        /\ f[a].currentValue # g[a].entryExp
        /\ f[a].expectedCurrentValue = Modulus - 1

\* The number of atomic_incr calls of the agents 0 .. n that returned.
RECURSIVE CountIncr(_)
CountIncr(n) == stat.nIncr[n] + (IF n = 0 THEN 0 ELSE CountIncr(n - 1))

\* Only atomic_incr calls were made, all with the delta d.
OnlyIncrementsBy(d) ==
    /\ ~stat.casStores
    /\ \A a \in Agents : stat.nDecr[a] = 0 /\ delta[a] \in {None, d}

\* C19: when the agents call atomic_incr with one delta d and the cell does
\* not wrap, the k calls that returned have returned k distinct values:
\* initial + d, initial + 2d, ..., initial + k*d.
DistinctIncrResults ==
    \A d \in Deltas :
        (/\ Quiescent /\ OnlyIncrementsBy(d)
         /\ stat.cell0 + CountIncr(MaxDepth) * d < Modulus)
            => /\ ~stat.dup
               /\ stat.results =
                      {stat.cell0 + i * d : i \in 1 .. CountIncr(MaxDepth)}

\* C19 witness: the mainline's atomic_incr was overtaken by a handler's with
\* the same delta and retried; both have returned.
DistinctIncrResultsWitness ==
    \E d \in Deltas :
        /\ Quiescent /\ OnlyIncrementsBy(d)
        /\ stat.nIncr[0] = 1 /\ stat.nIncr[1] = 1
        /\ delta[0] = d /\ delta[1] = d
        /\ g[0].attempts >= 2 /\ f[0].pc = "done"
        /\ stat.results = {stat.cell0 + d, stat.cell0 + 2 * d}

====
